---- MODULE Spec2Model ----
(***************************************************************************)
(* Access-control core of the property-access application: the luggage     *)
(* state machine (blueprints/luggage.py), the person and booking-QR scans  *)
(* (blueprints/guard.py) and the tables they read (models.py, seed.py,     *)
(* blueprints/admin.py, blueprints/bookings.py).                           *)
(*                                                                         *)
(* The database is the state.  Every request handler is one action of the  *)
(* sequential specification Spec; SpecConc splits the luggage scan at the  *)
(* point where another request can run between its SELECT and its COMMIT.  *)
(* SpecGate is the gate (person, booking-QR and luggage scans with the     *)
(* clock), SpecAudit adds the delete handlers of admin.py, SpecSeed runs   *)
(* seed.py against a changing room table, and SpecOcr applies the          *)
(* normaliser of ocr.py to bounded OCR texts.  SpecRoles sends every       *)
(* caller to the three scan endpoints, SpecGuests books stays for guests   *)
(* who share an identity number, and SpecPlan puts the plan gate of        *)
(* utils/plan_gate.py in front of the luggage operations.                  *)
(***************************************************************************)
EXTENDS Integers, Sequences, FiniteSets, TLC

VARIABLES
    users,        \* User table: the id of each role's user, NULL when it has none
    checkpoints,  \* Checkpoint table: id -> [property_id]
    rooms,        \* Room table: id -> [property_id]
    properties,   \* Property table: id -> [owner_id]
    guests,       \* Guest table: sequence, guests[i] = [national_id_number]
    bookings,     \* Booking table: sequence of booking rows
    luggage,      \* Luggage table: function from existing ids to rows
    nextLugId,    \* next autoincrement id of the Luggage table
    lugLog,       \* LuggageScanLog table, in insertion order
    accessLog,    \* AccessLog table, in insertion order
    now,          \* the clock (UTC, hours)
    sess,         \* per request slot: an in-flight luggage scan between SELECT and COMMIT
    ocr,          \* extract_id_text: the OCR text, its normal form and the identity found
    gate,         \* require_plan: the decorator's arguments, the caller, the caller's plan
    resp,         \* the response to the last request
    reqs          \* the number of requests served so far

vars == <<users, checkpoints, rooms, properties, guests, bookings, luggage, nextLugId,
          lugLog, accessLog, now, sess, ocr, gate, resp, reqs>>

----------------------------------------------------------------------------
\* Bounds of the model
MaxRequests == 5     \* requests served in one run at the luggage desk
MaxGateRequests == 3 \* requests served in one run at the gate
MaxLuggage  == 2     \* luggage rows ever registered
MaxBookings == 2     \* Booking rows (the seeded one included)
MaxRooms    == 2     \* Room rows (the seeded one included)
MaxTime     == 1     \* clock ticks after start
MaxRun      == 10    \* longest digit run in an OCR text
MaxGuests   == 3     \* Guest rows (the seeded one included) where guests share a number

\* SQL NULL / Python None in an integer column
NULL == -1
\* SQL NULL in a string column: equal to no submitted string
NullStr == <<"NULL">>

ROLE_ADMIN == "admin"
ROLE_HOST  == "host"
ROLE_GUARD == "guard"
\* the users seed.py creates, in order: admin, guard, host
AdminId == 1
GuardId == 2
HostId  == 3
\* a request comes from one of the seeded users or from nobody logged in
Callers == {"anon", ROLE_ADMIN, ROLE_HOST, ROLE_GUARD}
Roles == {ROLE_ADMIN, ROLE_GUARD, ROLE_HOST}
\* current_user.id
UserId(caller) == IF caller \in Roles THEN users[caller] ELSE NULL

\* Hours of the seeded booking's window around the start of the clock
SeedBefore == 2
SeedAfter  == 72
\* Africa/Nairobi is UTC+3, no daylight saving
NairobiOffset == 3

----------------------------------------------------------------------------
\* Form fields.  A submitted string is its content without the surrounding
\* white space (core) and whether white space surrounds it (pad); a field
\* the form does not carry is Missing.  A token's content is a tuple, <<>>
\* being the empty string.
Missing == [pad |-> FALSE, core |-> <<"None">>]
EmptyStr == <<>>
\* (request.form.get(name) or "").strip()
StripOrEmpty(raw) == IF raw = Missing THEN EmptyStr ELSE raw.core
\* int(request.form.get(name) or 0)
IntOrZero(n) == IF n = NULL THEN 0 ELSE n

\* secrets.token_urlsafe(16): a fresh token per row, modelled by the row it is made for
LuggageToken(id) == <<"L", id>>
BookingToken(id) == <<"B", id>>
\* a token no row carries
StrayToken == <<"X", 0>>

RawOf(cores) == {Missing} \cup [pad : BOOLEAN, core : cores]
\* qr_token at the luggage scan: nothing, white space, a stray token, a luggage token
QrInputs == RawOf({EmptyStr, StrayToken} \cup {LuggageToken(i) : i \in 1..MaxLuggage})
\* qr_token at the booking scan: nothing, white space, a stray token, a booking token
BookingQrInputs == RawOf({EmptyStr, StrayToken} \cup {BookingToken(i) : i \in 1..MaxBookings})
\* national identity numbers typed or OCR-ed at the gate
\* (a string is the sequence of its characters)
SeedNid == <<"1", "2", "3", "4", "5", "6", "7", "8">>
OtherNid == <<"8", "7", "6", "5", "4", "3", "2", "1">>
\* the seeded number as an OCR misreads it, and as a guard types it with a label
MisreadNid == <<"I", "2", "3", "4", "5", "6", "7", "8">>
LabelledNid == <<"I", "D", ":", " ">> \o SeedNid
NidInputs == RawOf({EmptyStr, SeedNid, OtherNid, MisreadNid, LabelledNid})
\* checkpoint_id as the form carries it: absent, the seeded checkpoint, or no checkpoint's id
CheckpointInputs == {NULL, 1}

----------------------------------------------------------------------------
\* Responses.  One shape for every handler: the HTTP status and the JSON body's
\* fields, "" where the body has none (for a redirect, message is the flash).
Resp(code, ok, decision, reason, message, info) ==
    [code |-> code, ok |-> ok, decision |-> decision, reason |-> reason,
     message |-> message, info |-> info]
NoInfo == [luggage_id |-> NULL, booking_id |-> NULL, status |-> ""]
\* jsonify({"ok": False, "error": "Unauthorized"}), 403
Unauthorized ==
    Resp(403, "false", "", "", "Unauthorized", NoInfo)
\* @login_required for a caller who is not logged in: redirect to the login page
LoginRedirect ==
    Resp(302, "", "", "", "login", NoInfo)
\* flash(message) and redirect
Redirect(message) ==
    Resp(302, "", "", "", message, NoInfo)
\* flash(message) and redirect to the detail page of luggage row lug_id
Detail(message, lug_id) ==
    Resp(302, "", "", "", message, [luggage_id |-> lug_id, booking_id |-> NULL, status |-> ""])
\* get_or_404 / first_or_404 on a missing row
NotFound ==
    Resp(404, "", "", "", "", NoInfo)
\* an exception the handler does not catch
ServerError ==
    Resp(500, "", "", "", "", NoInfo)

----------------------------------------------------------------------------
\* Two requests can be in progress at once, each with its own database session.
\* A slot holds what a luggage scan has read between its SELECT and its COMMIT,
\* and the verdict and luggage id of the last scan the slot finished.
Slots == {1, 2}
IdleSlot(out, outLug) ==
    [pc |-> "idle", guard |-> NULL, checkpoint_id |-> 0, token |-> EmptyStr,
     lug |-> 0, status |-> "", out |-> out, outLug |-> outLug]

\* extract_id_text has not run
NoOcr == [pc |-> "idle", raw |-> EmptyStr, norm |-> EmptyStr, found |-> EmptyStr]

\* no request is at a plan gate
NoGate == [required |-> <<"None">>, any_of |-> {}, caller |-> "anon", plan |-> <<"None">>,
           op |-> ""]

\* The database after db.create_all() and seed.py: the three users, one
\* property owned by the host, one room in it, one guest with one booking
\* from two hours before to three days after the seeding, no QR token yet.
Seeded ==
    /\ users = [r \in Roles |-> CASE r = ROLE_ADMIN -> AdminId
                                   [] r = ROLE_GUARD -> GuardId
                                   [] r = ROLE_HOST  -> HostId]
    /\ checkpoints = (1 :> [property_id |-> 1])
    /\ properties = (1 :> [owner_id |-> HostId])
    /\ rooms = <<[property_id |-> 1]>>
    /\ guests = <<[national_id_number |-> SeedNid]>>
    /\ bookings = <<[guest_id |-> 1, room_id |-> 1,
                     check_in |-> 0 - SeedBefore, check_out |-> SeedAfter,
                     status |-> "booked", qr_token |-> NullStr]>>
    /\ luggage = <<>>
    /\ nextLugId = 1
    /\ lugLog = <<>>
    /\ accessLog = <<>>
    /\ now = 0
    /\ sess = [s \in Slots |-> IdleSlot("", 0)]
    /\ resp = Resp(0, "", "", "", "", NoInfo)
    /\ reqs = 0

\* the application starts on the seeded database
Init == Seeded /\ ocr = NoOcr /\ gate = NoGate

\* the role helpers of luggage.py
\* (a variant that lets the administrator through as well)
HostOrAdmin(caller) == caller \in {ROLE_HOST, ROLE_ADMIN}
HostOnly(caller) == caller = ROLE_HOST
\* (a variant that lets the administrator through as well)
GuardOrAdmin(caller) == caller \in {ROLE_GUARD, ROLE_ADMIN}
GuardOnly(caller) == caller = ROLE_GUARD

----------------------------------------------------------------------------
\* Host operations on luggage (blueprints/luggage.py)

DbRest == <<users, checkpoints, rooms, properties, guests, bookings, now, sess, ocr, gate>>

\* POST /luggage/new
create(caller, booking_id, label) ==
    /\ nextLugId <= MaxLuggage
    /\ UNCHANGED <<DbRest, lugLog, accessLog>>
    /\ IF caller = "anon" THEN
            /\ resp' = LoginRedirect
            /\ UNCHANGED <<luggage, nextLugId>>
       ELSE IF ~HostOnly(caller) THEN
            /\ resp' = Redirect("Only hosts can register luggage.")
            /\ UNCHANGED <<luggage, nextLugId>>
       ELSE IF IntOrZero(booking_id) = 0 THEN
            /\ resp' = Redirect("Booking is required.")
            /\ UNCHANGED <<luggage, nextLugId>>
       ELSE IF label = EmptyStr THEN
            /\ resp' = Redirect("Label is required.")
            /\ UNCHANGED <<luggage, nextLugId>>
       ELSE IF booking_id \notin DOMAIN bookings THEN
            /\ resp' = NotFound
            /\ UNCHANGED <<luggage, nextLugId>>
       ELSE /\ luggage' = luggage @@ (nextLugId :>
                              [booking_id |-> booking_id,
                               qr_token |-> LuggageToken(nextLugId),
                               status |-> "pending"])
            /\ nextLugId' = nextLugId + 1
            /\ resp' = Detail("Luggage registered and QR generated.", nextLugId)

\* the status block() writes
BlockedStatus(old) == "blocked"

\* POST /luggage/<lug_id>/block
block(caller, lug_id) ==
    /\ UNCHANGED <<DbRest, lugLog, accessLog, nextLugId>>
    /\ IF caller = "anon" THEN
            /\ resp' = LoginRedirect
            /\ UNCHANGED luggage
       ELSE IF ~HostOnly(caller) THEN
            /\ resp' = Redirect("Only hosts can manage luggage status.")
            /\ UNCHANGED luggage
       ELSE IF lug_id \notin DOMAIN luggage THEN
            /\ resp' = NotFound
            /\ UNCHANGED luggage
       ELSE /\ luggage' = [luggage EXCEPT ![lug_id].status = BlockedStatus(@)]
            /\ resp' = Detail("Luggage blocked.", lug_id)

\* the status unblock() writes:  "pending" if lug.status != "exited" else "exited"
UnblockedStatus(old) == IF old # "exited" THEN "pending" ELSE "exited"

\* POST /luggage/<lug_id>/unblock
unblock(caller, lug_id) ==
    /\ UNCHANGED <<DbRest, lugLog, accessLog, nextLugId>>
    /\ IF caller = "anon" THEN
            /\ resp' = LoginRedirect
            /\ UNCHANGED luggage
       ELSE IF ~HostOnly(caller) THEN
            /\ resp' = Redirect("Only hosts can manage luggage status.")
            /\ UNCHANGED luggage
       ELSE IF lug_id \notin DOMAIN luggage THEN
            /\ resp' = NotFound
            /\ UNCHANGED luggage
       ELSE /\ luggage' = [luggage EXCEPT ![lug_id].status = UnblockedStatus(@)]
            /\ resp' = Detail("Luggage unblocked.", lug_id)

\* What deleting a luggage row does to the scan log rows that refer to it:
\* the log holds a weak reference, the rows stay as they are.
ScanLogsAfterDelete(lug_id) == lugLog

\* POST /luggage/<lug_id>/delete
delete(caller, lug_id) ==
    /\ UNCHANGED <<DbRest, accessLog, nextLugId>>
    /\ IF caller = "anon" THEN
            /\ resp' = LoginRedirect
            /\ UNCHANGED <<luggage, lugLog>>
       ELSE IF ~HostOnly(caller) THEN
            /\ resp' = Redirect("Only hosts can delete luggage.")
            /\ UNCHANGED <<luggage, lugLog>>
       ELSE IF lug_id \notin DOMAIN luggage THEN
            /\ resp' = NotFound
            /\ UNCHANGED <<luggage, lugLog>>
       ELSE /\ luggage' = [i \in DOMAIN luggage \ {lug_id} |-> luggage[i]]
            /\ lugLog' = ScanLogsAfterDelete(lug_id)
            /\ resp' = Redirect("Luggage deleted.")

----------------------------------------------------------------------------
\* Guard: the luggage scan (blueprints/luggage.py, guard_scan_post)

\* the inner join Luggage-Booking-Room-Guest-Property filtered by token: the
\* luggage rows carrying the token whose booking, room, guest and property
\* rows all exist (a room whose property_id is NULL joins no property)
LugJoin(token) ==
    {l \in DOMAIN luggage :
        /\ luggage[l].qr_token = token
        /\ luggage[l].booking_id \in DOMAIN bookings
        /\ bookings[luggage[l].booking_id].room_id \in DOMAIN rooms
        /\ bookings[luggage[l].booking_id].guest_id \in DOMAIN guests
        /\ rooms[bookings[luggage[l].booking_id].room_id].property_id \in DOMAIN properties}

\* .first(): the id of the joined row, 0 when the join is empty
LugFirst(token) ==
    IF LugJoin(token) = {} THEN 0
    ELSE CHOOSE l \in LugJoin(token) : \A m \in LugJoin(token) : l <= m

\* the business rules: <<decision, message>> from the status read
Decide(status) ==
    IF status = "exited" THEN <<"deny", "Already exited.">>
    ELSE IF status = "blocked" THEN <<"deny", "Blocked item.">>
    ELSE <<"allow", "Authorized to exit.">>

LuggageScanLog(guard_id, checkpoint_id, luggage_id, decision, note) ==
    [guard_id |-> guard_id, checkpoint_id |-> checkpoint_id,
     luggage_id |-> luggage_id, decision |-> decision, note |-> note]

\* (a variant that logs no luggage reference instead of the sentinel 0)
NotFoundLogNoSentinel(caller, checkpoint_id) ==
    LuggageScanLog(UserId(caller), checkpoint_id, NULL, "deny", "QR not found")

\* the row logged when the join finds nothing
NotFoundLog(caller, checkpoint_id) ==
    LuggageScanLog(UserId(caller), checkpoint_id, 0, "deny", "QR not found")

\* the response to an empty token
NoQr(message) ==
    Resp(200, "true", "deny", "no_qr", message, NoInfo)

\* the status the scan writes on allow
ExitStatus(old) == "exited"

\* POST /luggage/scan, the whole handler
guard_scan_post(caller, cp, qr) ==
    LET checkpoint_id == IntOrZero(cp)
        token == StripOrEmpty(qr)
        l == LugFirst(token)
        d == Decide(luggage[l].status)
    IN
    /\ UNCHANGED <<DbRest, accessLog, nextLugId>>
    /\ IF caller = "anon" THEN
            /\ resp' = LoginRedirect
            /\ UNCHANGED <<luggage, lugLog>>
       ELSE IF ~GuardOnly(caller) THEN
            /\ resp' = Unauthorized
            /\ UNCHANGED <<luggage, lugLog>>
       ELSE IF token = EmptyStr THEN
            /\ resp' = NoQr("No QR token detected.")
            /\ UNCHANGED <<luggage, lugLog>>
       ELSE IF l = 0 THEN
            /\ lugLog' = Append(lugLog, NotFoundLog(caller, checkpoint_id))
            /\ resp' = Resp(200, "true", "deny", "",
                            "QR not recognized.", NoInfo)
            /\ UNCHANGED luggage
       ELSE /\ lugLog' = Append(lugLog,
                            LuggageScanLog(UserId(caller), checkpoint_id, l, d[1], d[2]))
            /\ luggage' = IF d[1] = "allow"
                          THEN [luggage EXCEPT ![l].status = ExitStatus(@)]
                          ELSE luggage
            /\ resp' = Resp(200, "true", d[1], "", "",
                            [luggage_id |-> l, booking_id |-> luggage[l].booking_id,
                             status |-> luggage'[l].status])

----------------------------------------------------------------------------
\* The luggage scan as two steps of one request: what it does up to and
\* including the SELECT, and what it does from the business rules to the
\* COMMIT.  Between the two, another request may run: the handler takes no
\* lock and the UPDATE it commits carries no condition on the status read.

\* up to the SELECT (role check, form fields, empty token, the join)
scan_select(s, caller, cp, qr) ==
    LET token == StripOrEmpty(qr)
        l == LugFirst(token)
    IN
    /\ sess[s].pc = "idle"
    /\ UNCHANGED <<users, checkpoints, rooms, properties, guests, bookings, now, luggage,
                   nextLugId, lugLog, accessLog, ocr, gate>>
    /\ IF caller = "anon" THEN
            /\ resp' = LoginRedirect
            /\ UNCHANGED sess
       ELSE IF ~GuardOnly(caller) THEN
            /\ resp' = Unauthorized
            /\ UNCHANGED sess
       ELSE IF token = EmptyStr THEN
            /\ resp' = NoQr("No QR token detected.")
            /\ UNCHANGED sess
       ELSE /\ sess' = [sess EXCEPT ![s] =
                          [pc |-> "selected", guard |-> UserId(caller),
                           checkpoint_id |-> IntOrZero(cp), token |-> token, lug |-> l,
                           status |-> IF l = 0 THEN "" ELSE luggage[l].status,
                           out |-> @.out, outLug |-> @.outLug]]
            /\ UNCHANGED resp

\* from the business rules to the COMMIT, on the row as the SELECT saw it
scan_commit(s) ==
    LET l == sess[s].lug
        d == Decide(sess[s].status)
    IN
    /\ sess[s].pc = "selected"
    /\ UNCHANGED <<users, checkpoints, rooms, properties, guests, bookings, now, nextLugId,
                   accessLog, ocr, gate>>
    /\ IF l = 0 THEN
            /\ lugLog' = Append(lugLog,
                            LuggageScanLog(sess[s].guard, sess[s].checkpoint_id, 0,
                                           "deny", "QR not found"))
            /\ resp' = Resp(200, "true", "deny", "", "QR not recognized.", NoInfo)
            /\ sess' = [sess EXCEPT ![s] = IdleSlot("deny", 0)]
            /\ UNCHANGED luggage
       ELSE IF l \notin DOMAIN luggage /\ d[1] = "allow" THEN
            \* the UPDATE matches no row: StaleDataError, the transaction is rolled back
            /\ resp' = ServerError
            /\ sess' = [sess EXCEPT ![s] = IdleSlot("error", l)]
            /\ UNCHANGED <<luggage, lugLog>>
       ELSE /\ lugLog' = Append(lugLog,
                            LuggageScanLog(sess[s].guard, sess[s].checkpoint_id, l,
                                           d[1], d[2]))
            /\ luggage' = IF d[1] = "allow"
                          THEN [luggage EXCEPT ![l].status = ExitStatus(@)]
                          ELSE luggage
            /\ resp' = IF l \notin DOMAIN luggage
                       THEN ServerError  \* luggage.label on a deleted row, after the commit
                       ELSE Resp(200, "true", d[1], "", "",
                                 [luggage_id |-> l, booking_id |-> luggage[l].booking_id,
                                  status |-> luggage'[l].status])
            /\ sess' = [sess EXCEPT ![s] = IdleSlot(d[1], l)]

----------------------------------------------------------------------------
\* Rooms and bookings (blueprints/admin.py, blueprints/bookings.py)

\* What deleting a row does to the AccessLog rows that refer to it.  The
\* relationships of AccessLog (guard, checkpoint, guest, booking) have no
\* backref and no cascade, and AccessLog has no reference to a room or a
\* property: the rows stay as they are.
\* (a variant in which the log rows are deleted with the row they refer to)
AccessLogsDeletedWith(kind, id) ==
    LET Kept(row) ==
            CASE kind = "checkpoint" -> row.checkpoint_id # id
              [] kind = "user"       -> row.guard_id # id
              [] OTHER               -> TRUE
    IN  SelectSeq(accessLog, Kept)

AccessLogsAfterDelete(kind, id) == accessLog

\* the id a new row of a table gets (INTEGER PRIMARY KEY of the configured
\* SQLite database): one more than the largest id in the table
NextId(table) ==
    IF DOMAIN table = {} THEN 1
    ELSE (CHOOSE i \in DOMAIN table : \A j \in DOMAIN table : j <= i) + 1

\* the table without the row id (db.session.delete; SQLite enforces no foreign key)
Without(table, id) == [i \in DOMAIN table \ {id} |-> table[i]]

\* the role helpers of admin.py
_is_admin(caller) == caller = ROLE_ADMIN
_is_host(caller) == caller = ROLE_HOST
_can_manage(caller) == caller \in {ROLE_ADMIN, ROLE_HOST}

\* POST /admin/rooms/new: a room is created without a property
rooms_create(caller, name) ==
    /\ Cardinality(DOMAIN rooms) < MaxRooms
    /\ UNCHANGED <<users, checkpoints, properties, guests, bookings, luggage, nextLugId,
                   lugLog, accessLog, now, sess, ocr, gate>>
    /\ IF caller = "anon" THEN
            /\ resp' = LoginRedirect
            /\ UNCHANGED rooms
       ELSE IF caller \notin {ROLE_ADMIN, ROLE_HOST} THEN
            /\ resp' = Redirect("Unauthorized")
            /\ UNCHANGED rooms
       ELSE IF name = EmptyStr THEN
            /\ resp' = Redirect("Room name is required.")
            /\ UNCHANGED rooms
       ELSE /\ rooms' = rooms @@ (NextId(rooms) :> [property_id |-> NULL])
            /\ resp' = Redirect("Room created.")

\* the room query of create_booking for a host: the room exists and either its
\* property is owned by the caller or it has no property
RoomForHost(caller, room_id) ==
    /\ room_id \in DOMAIN rooms
    /\ \/ rooms[room_id].property_id = NULL
       \/ /\ rooms[room_id].property_id \in DOMAIN properties
          /\ properties[rooms[room_id].property_id].owner_id = UserId(caller)


\* POST /bookings/new (create_booking): a new Guest row and a new Booking row
\* with its QR token
new_booking_post(caller, national_id, room_id, check_in, check_out, plate_missing) ==
    LET gid == Len(guests) + 1
        bid == Len(bookings) + 1
    IN
    /\ UNCHANGED <<users, checkpoints, rooms, properties, luggage, nextLugId, lugLog,
                   accessLog, now, sess, ocr, gate>>
    /\ IF caller = "anon" THEN
            /\ resp' = LoginRedirect
            /\ UNCHANGED <<guests, bookings>>
       ELSE IF caller # ROLE_HOST THEN
            /\ resp' = Redirect("Only hosts can add bookings")
            /\ UNCHANGED <<guests, bookings>>
       ELSE IF check_in = NULL \/ check_out = NULL THEN
            /\ resp' = Redirect("Please enter valid dates/times for check-in and check-out.")
            /\ UNCHANGED <<guests, bookings>>
       ELSE IF plate_missing THEN
            /\ resp' = Redirect("Vehicle plate required when 'Owns vehicle' is checked.")
            /\ UNCHANGED <<guests, bookings>>
       ELSE IF ~RoomForHost(caller, IntOrZero(room_id)) THEN
            /\ resp' = Redirect("Invalid room selection.")
            /\ UNCHANGED <<guests, bookings>>
       ELSE /\ guests' = Append(guests, [national_id_number |-> StripOrEmpty(national_id)])
            /\ bookings' = Append(bookings,
                              [guest_id |-> gid, room_id |-> room_id,
                               check_in |-> check_in, check_out |-> check_out,
                               status |-> "booked", qr_token |-> BookingToken(bid)])
            /\ resp' = Redirect("Booking created (QR generated & emailed).")

\* the same, while the Booking table has room
create_booking(caller, national_id, room_id, check_in, check_out, plate_missing) ==
    /\ Len(bookings) < MaxBookings
    /\ new_booking_post(caller, national_id, room_id, check_in, check_out, plate_missing)

\* POST /admin/rooms/<room_id>/delete
rooms_delete(caller, room_id) ==
    /\ UNCHANGED <<users, checkpoints, properties, guests, bookings, luggage, nextLugId,
                   lugLog, now, sess, ocr, gate>>
    /\ IF caller = "anon" THEN
            /\ resp' = LoginRedirect
            /\ UNCHANGED <<rooms, accessLog>>
       ELSE IF ~_can_manage(caller) THEN
            /\ resp' = Redirect("Unauthorized")
            /\ UNCHANGED <<rooms, accessLog>>
       ELSE IF room_id \notin DOMAIN rooms THEN
            /\ resp' = NotFound
            /\ UNCHANGED <<rooms, accessLog>>
       ELSE IF /\ _is_host(caller)
               /\ rooms[room_id].property_id # NULL
               /\ \/ rooms[room_id].property_id \notin DOMAIN properties
                  \/ properties[rooms[room_id].property_id].owner_id # UserId(caller)
       THEN /\ resp' = Redirect("Unauthorized")
            /\ UNCHANGED <<rooms, accessLog>>
       ELSE /\ rooms' = Without(rooms, room_id)
            /\ accessLog' = AccessLogsAfterDelete("room", room_id)
            /\ resp' = Redirect("Room deleted.")

\* POST /admin/properties/<prop_id>/delete
properties_delete(caller, prop_id) ==
    /\ UNCHANGED <<users, checkpoints, rooms, guests, bookings, luggage, nextLugId,
                   lugLog, now, sess, ocr, gate>>
    /\ IF caller = "anon" THEN
            /\ resp' = LoginRedirect
            /\ UNCHANGED <<properties, accessLog>>
       ELSE IF ~_can_manage(caller) THEN
            /\ resp' = Redirect("Unauthorized")
            /\ UNCHANGED <<properties, accessLog>>
       ELSE IF prop_id \notin DOMAIN properties THEN
            /\ resp' = NotFound
            /\ UNCHANGED <<properties, accessLog>>
       ELSE IF _is_host(caller) /\ properties[prop_id].owner_id # UserId(caller) THEN
            /\ resp' = Redirect("Unauthorized")
            /\ UNCHANGED <<properties, accessLog>>
       ELSE /\ properties' = Without(properties, prop_id)
            /\ accessLog' = AccessLogsAfterDelete("property", prop_id)
            /\ resp' = Redirect("Property deleted.")

\* POST /admin/checkpoints/<cp_id>/delete
checkpoints_delete(caller, cp_id) ==
    /\ UNCHANGED <<users, rooms, properties, guests, bookings, luggage, nextLugId,
                   lugLog, now, sess, ocr, gate>>
    /\ IF caller = "anon" THEN
            /\ resp' = LoginRedirect
            /\ UNCHANGED <<checkpoints, accessLog>>
       ELSE IF ~_can_manage(caller) THEN
            /\ resp' = Redirect("Unauthorized")
            /\ UNCHANGED <<checkpoints, accessLog>>
       ELSE IF cp_id \notin DOMAIN checkpoints THEN
            /\ resp' = NotFound
            /\ UNCHANGED <<checkpoints, accessLog>>
       ELSE IF _is_host(caller) /\ checkpoints[cp_id].property_id \notin DOMAIN properties THEN
            \* prop.owner_id on None: AttributeError
            /\ resp' = ServerError
            /\ UNCHANGED <<checkpoints, accessLog>>
       ELSE IF /\ _is_host(caller)
               /\ properties[checkpoints[cp_id].property_id].owner_id # UserId(caller)
       THEN /\ resp' = Redirect("Unauthorized")
            /\ UNCHANGED <<checkpoints, accessLog>>
       ELSE /\ checkpoints' = Without(checkpoints, cp_id)
            /\ accessLog' = AccessLogsAfterDelete("checkpoint", cp_id)
            /\ resp' = Redirect("Checkpoint deleted.")

\* POST /admin/users/<user_id>/delete
users_delete(caller, user_id) ==
    /\ UNCHANGED <<checkpoints, rooms, properties, guests, bookings, luggage, nextLugId,
                   lugLog, now, sess, ocr, gate>>
    /\ IF caller = "anon" THEN
            /\ resp' = LoginRedirect
            /\ UNCHANGED <<users, accessLog>>
       ELSE IF ~_is_admin(caller) THEN
            /\ resp' = Redirect("Unauthorized")
            /\ UNCHANGED <<users, accessLog>>
       ELSE IF \A r \in Roles : users[r] # user_id THEN
            /\ resp' = NotFound
            /\ UNCHANGED <<users, accessLog>>
       ELSE IF user_id = UserId(caller) THEN
            /\ resp' = Redirect("You cannot delete yourself.")
            /\ UNCHANGED <<users, accessLog>>
       ELSE /\ users' = [r \in Roles |-> IF users[r] = user_id THEN NULL ELSE users[r]]
            /\ accessLog' = AccessLogsAfterDelete("user", user_id)
            /\ resp' = Redirect("User deleted.")

\* time passes
Tick ==
    /\ now < MaxTime
    /\ now' = now + 1
    /\ UNCHANGED <<users, checkpoints, rooms, properties, guests, bookings, luggage,
                   nextLugId, lugLog, accessLog, sess, ocr, gate, resp, reqs>>

----------------------------------------------------------------------------
\* Guard: the person scan and the booking-QR scan (blueprints/guard.py)

AccessLog(guard_id, checkpoint_id, guest_id, booking_id, national_id_number, decision, ocr_text) ==
    [guard_id |-> guard_id, checkpoint_id |-> checkpoint_id, guest_id |-> guest_id,
     booking_id |-> booking_id, national_id_number |-> national_id_number,
     decision |-> decision, ocr_text |-> ocr_text]

\* datetime.now(Africa/Nairobi).replace(tzinfo=None)
NairobiNow == now + NairobiOffset
\* datetime.utcnow()
UtcNow == now

\* Guest.query.filter_by(national_id_number=...).first(): the first such row, 0 if none
GuestByNid(national_id) ==
    LET found == {g \in DOMAIN guests : guests[g].national_id_number = national_id} IN
    IF found = {} THEN 0 ELSE CHOOSE g \in found : \A h \in found : g <= h

\* the bookings of a guest that are active at t
ActiveBookings(guest_id, t) ==
    {b \in DOMAIN bookings :
        /\ bookings[b].guest_id = guest_id
        /\ bookings[b].check_in <= t
        /\ bookings[b].check_out >= t
        /\ bookings[b].status # "cancelled"}

\* .order_by(Booking.check_out.desc()).first(): 0 if none
ActiveBooking(guest_id, t) ==
    LET act == ActiveBookings(guest_id, t) IN
    IF act = {} THEN 0
    ELSE CHOOSE b \in act :
            \A c \in act : \/ bookings[b].check_out > bookings[c].check_out
                           \/ bookings[b].check_out = bookings[c].check_out /\ b <= c

\* (a variant that reports the empty identity string as a failure)
NoIdAsFailure ==
    Resp(400, "false", "", "no_id", "No ID number provided.", NoInfo)

\* the response to an empty identity string
NoId ==
    Resp(200, "true", "deny", "no_id", "No ID number provided.", NoInfo)

\* POST /guard/scan, the whole handler
scan_post(caller, cp, detected_id) ==
    LET checkpoint_id == IntOrZero(cp)
        national_id == StripOrEmpty(detected_id)
        g == GuestByNid(national_id)
        b == IF g = 0 THEN 0 ELSE ActiveBooking(g, NairobiNow)
        decision == IF b # 0 THEN "allow" ELSE "deny"
    IN
    /\ UNCHANGED <<DbRest, luggage, nextLugId, lugLog>>
    /\ IF caller = "anon" THEN
            /\ resp' = LoginRedirect
            /\ UNCHANGED accessLog
       ELSE IF ~GuardOnly(caller) THEN
            /\ resp' = Unauthorized
            /\ UNCHANGED accessLog
       ELSE IF national_id = EmptyStr THEN
            /\ resp' = NoId
            /\ UNCHANGED accessLog
       ELSE /\ accessLog' = Append(accessLog,
                               AccessLog(UserId(caller), checkpoint_id,
                                         IF g # 0 THEN g ELSE NULL,
                                         IF b # 0 THEN b ELSE NULL,
                                         national_id, decision, "[client_or_manual]"))
            /\ resp' =
                 IF b = 0 THEN
                    Resp(200, "true", "deny",
                         "no_active_booking",
                         "No active booking for this ID at the current time.", NoInfo)
                 ELSE IF \/ bookings[b].room_id \notin DOMAIN rooms
                         \/ rooms[bookings[b].room_id].property_id \notin DOMAIN properties
                 THEN \* room.property_id or prop.name on None: AttributeError
                    ServerError
                 ELSE
                    Resp(200, "true", "allow", "", "",
                         [luggage_id |-> NULL, booking_id |-> b, status |-> ""])

\* Booking.query.filter_by(qr_token=token).first(): 0 if none
BookingByToken(token) ==
    LET found == {b \in DOMAIN bookings : bookings[b].qr_token = token} IN
    IF found = {} THEN 0 ELSE CHOOSE b \in found : \A c \in found : b <= c

\* (a variant that logs the unknown token as an ordinary booking-QR attempt)
BookingNotFoundLogNoMarker(caller, checkpoint_id) ==
    AccessLog(UserId(caller), checkpoint_id, NULL, NULL, NullStr, "deny", "[booking_qr]")

\* the row logged when no booking carries the token
BookingNotFoundLog(caller, checkpoint_id) ==
    AccessLog(UserId(caller), checkpoint_id, NULL, NULL, NullStr, "deny", "[booking_qr_not_found]")

\* POST /guard/booking-scan, the whole handler
booking_scan_post(caller, cp, qr) ==
    LET checkpoint_id == IntOrZero(cp)
        token == StripOrEmpty(qr)
        b == BookingByToken(token)
        decision == IF /\ bookings[b].status # "cancelled"
                       /\ bookings[b].check_in <= UtcNow
                       /\ UtcNow <= bookings[b].check_out
                    THEN "allow" ELSE "deny"
        g == bookings[b].guest_id
    IN
    /\ UNCHANGED <<DbRest, luggage, nextLugId, lugLog>>
    /\ IF caller = "anon" THEN
            /\ resp' = LoginRedirect
            /\ UNCHANGED accessLog
       ELSE IF ~GuardOnly(caller) THEN
            /\ resp' = Unauthorized
            /\ UNCHANGED accessLog
       ELSE IF token = EmptyStr THEN
            /\ resp' = NoQr("No QR token provided.")
            /\ UNCHANGED accessLog
       ELSE IF b = 0 THEN
            /\ accessLog' = Append(accessLog, BookingNotFoundLog(caller, checkpoint_id))
            /\ resp' = Resp(200, "true", "deny", "",
                            "QR not recognized.", NoInfo)
       ELSE IF bookings[b].room_id \notin DOMAIN rooms THEN
            \* room.property_id on None: AttributeError before the log is added
            /\ resp' = ServerError
            /\ UNCHANGED accessLog
       ELSE /\ accessLog' = Append(accessLog,
                               AccessLog(UserId(caller), checkpoint_id,
                                         IF g \in DOMAIN guests THEN g ELSE NULL,
                                         b,
                                         IF g \in DOMAIN guests
                                         THEN guests[g].national_id_number ELSE NullStr,
                                         decision, "[booking_qr]"))
            /\ resp' = Resp(200, "true", decision, "", "",
                            [luggage_id |-> NULL, booking_id |-> b, status |-> ""])

----------------------------------------------------------------------------
\* The seed script (seed.py), run again on the database as it is.  Every row
\* it needs is looked up and created only when missing.  The model has no
\* property and no checkpoint but seeded ones, and every unseeded room has no
\* property: the look-ups by name are look-ups of any property, and of a room
\* or a checkpoint of that property.

\* the user of role r, created when the role has none
WithUser(u, r) ==
    LET ids == {u[q] : q \in Roles} \ {NULL}
        top == IF ids = {} THEN 0 ELSE CHOOSE i \in ids : \A j \in ids : j <= i
    IN  IF u[r] = NULL THEN [u EXCEPT ![r] = top + 1] ELSE u
\* .first(): the least id of a set of rows, 0 when there is none
FirstOf(ids) == IF ids = {} THEN 0 ELSE CHOOSE i \in ids : \A j \in ids : i <= j

seed ==
    LET seededUsers == WithUser(WithUser(WithUser(users, ROLE_ADMIN), ROLE_GUARD), ROLE_HOST)
        host == seededUsers[ROLE_HOST]
        propFound == FirstOf(DOMAIN properties)
        prop == IF propFound = 0 THEN NextId(properties) ELSE propFound
        roomFound == FirstOf({r \in DOMAIN rooms : rooms[r].property_id = prop})
        room == IF roomFound = 0 THEN NextId(rooms) ELSE roomFound
        gateFound == FirstOf({c \in DOMAIN checkpoints : checkpoints[c].property_id = prop})
        guestFound == GuestByNid(SeedNid)
        guest == IF guestFound = 0 THEN Len(guests) + 1 ELSE guestFound
        booked == \E b \in DOMAIN bookings :
                      bookings[b].guest_id = guest /\ bookings[b].room_id = room
    IN
    /\ roomFound = 0 => Cardinality(DOMAIN rooms) < MaxRooms
    /\ ~booked => Len(bookings) < MaxBookings
    /\ users' = seededUsers
    /\ properties' = IF propFound = 0
                     THEN properties @@ (prop :> [owner_id |-> host]) ELSE properties
    /\ rooms' = IF roomFound = 0 THEN rooms @@ (room :> [property_id |-> prop]) ELSE rooms
    /\ checkpoints' = IF gateFound = 0
                      THEN checkpoints @@ (NextId(checkpoints) :> [property_id |-> prop])
                      ELSE checkpoints
    /\ guests' = IF guestFound = 0
                 THEN Append(guests, [national_id_number |-> SeedNid]) ELSE guests
    /\ bookings' = IF booked THEN bookings
                   ELSE Append(bookings,
                               [guest_id |-> guest, room_id |-> room,
                                check_in |-> UtcNow - SeedBefore,
                                check_out |-> UtcNow + SeedAfter,
                                status |-> "booked", qr_token |-> NullStr])
    /\ UNCHANGED <<luggage, nextLugId, lugLog, accessLog, now, sess, ocr, gate, resp>>

----------------------------------------------------------------------------
\* Identity extraction from OCR text (ocr.py)

\* what re's \d and \w match, among the characters of the model
DigitChars == {"0", "1", "2", "3", "4", "5", "6", "7", "8", "9"}
WordChars ==
    DigitChars \cup {"_"} \cup
    {"A", "B", "C", "D", "E", "F", "G", "H", "I", "J", "K", "L", "M", "N", "O", "P", "Q",
     "R", "S", "T", "U", "V", "W", "X", "Y", "Z"} \cup
    {"a", "b", "c", "d", "e", "f", "g", "h", "i", "j", "k", "l", "m", "n", "o", "p", "q",
     "r", "s", "t", "u", "v", "w", "x", "y", "z"}

\* (a variant whose table also folds the digit 1 into 7)
CONFUSABLE_OneAsSeven(c) ==
    CASE c \in {"O", "o", "D"}      -> "0"
      [] c \in {"I", "l", "|", "!"} -> "1"
      [] c = "1"                    -> "7"
      [] c \in {"S", "s"}           -> "5"
      [] c = "B"                    -> "8"
      [] c \in {"Z", "z"}           -> "2"
      [] c \in {"q", "g"}           -> "9"
      [] OTHER                      -> c

\* the translation table: the character a character is replaced by
CONFUSABLE(c) ==
    CASE c \in {"O", "o", "D"}      -> "0"
      [] c \in {"I", "l", "|", "!"} -> "1"
      [] c \in {"S", "s"}           -> "5"
      [] c = "B"                    -> "8"
      [] c \in {"Z", "z"}           -> "2"
      [] c \in {"q", "g"}           -> "9"
      [] OTHER                      -> c

\* s.translate(CONFUSABLE)
_norm(s) == [i \in 1..Len(s) |-> CONFUSABLE(s[i])]

\* Optional[str]: no match
None == <<"None">>

\* \b at the gap before position i of text
WordBoundary(text, i) ==
    LET before == i > 1 /\ text[i - 1] \in WordChars
        after  == i <= Len(text) /\ text[i] \in WordChars
    IN  before # after

\* \b\d{n}\b matches at position i of text
MatchAt(text, i, n) ==
    /\ i + n - 1 <= Len(text)
    /\ WordBoundary(text, i)
    /\ \A k \in i..(i + n - 1) : text[k] \in DigitChars
    /\ WordBoundary(text, i + n)

\* rx.search(text) for rx = \b\d{lo,hi}\b: the leftmost position where it
\* matches, the longest match there (the quantifier is greedy); None if none
Search(text, lo, hi) ==
    LET at == {i \in 1..Len(text) : \E n \in lo..hi : MatchAt(text, i, n)} IN
    IF at = {} THEN None
    ELSE LET i == CHOOSE j \in at : \A k \in at : j <= k
             n == CHOOSE m \in lo..hi :
                      /\ MatchAt(text, i, m)
                      /\ \A q \in lo..hi : MatchAt(text, i, q) => q <= m
         IN  SubSeq(text, i, i + n - 1)

RX_EXACT8(text) == Search(text, 8, 8)
RX_RUN(text) == Search(text, 7, 9)

\* (a variant that takes the first run of 7 to 9 digits, whatever its length)
_pick_id_AnyRunFirst(text) ==
    IF RX_RUN(text) # None THEN RX_RUN(text) ELSE RX_EXACT8(text)

\* prefer an exact 8-digit match, else a run of 7 to 9 digits, else None
_pick_id(text) ==
    IF RX_EXACT8(text) # None THEN RX_EXACT8(text) ELSE RX_RUN(text)

\* extract_id_text: the OCR text of the image is normalised and searched
extract_id_text ==
    /\ ocr.pc = "raw"
    /\ ocr' = [pc |-> "done", raw |-> ocr.raw, norm |-> _norm(ocr.raw),
               found |-> _pick_id(_norm(ocr.raw))]
    /\ UNCHANGED <<users, checkpoints, rooms, properties, guests, bookings, luggage,
                   nextLugId, lugLog, accessLog, now, sess, gate, resp, reqs>>

----------------------------------------------------------------------------
\* Specifications.  A run serves a bounded number of requests.

\* one more request is served at the luggage desk, by handler
Serve(handler) ==
    /\ reqs < MaxRequests
    /\ reqs' = reqs + 1
    /\ handler

\* one more request is served at the gate, by handler
ServeGate(handler) ==
    /\ reqs < MaxGateRequests
    /\ reqs' = reqs + 1
    /\ handler

BookingIdInputs == {NULL} \cup (1..MaxBookings)
LabelInputs == {EmptyStr, <<"bag">>}
LuggageIds == 1..MaxLuggage
RoomNameInputs == {EmptyStr, <<"room">>}
RoomIdInputs == {NULL} \cup (1..MaxRooms)
GuestNidInputs == [pad : {FALSE}, core : {SeedNid, OtherNid}]
CheckInInputs == {NULL, 0, 3}
CheckOutInputs == {1, 4}

\* A caller the handler turns away is turned away whatever the form carries:
\* such a request is enumerated once, with an empty form.
Others(role) == Callers \ {role}

\* The luggage desk: rooms and bookings come into being, the host registers,
\* blocks, unblocks and deletes luggage, the guard scans luggage tokens.
NextLuggage ==
    \/ \E c \in {ROLE_ADMIN, ROLE_HOST}, n \in RoomNameInputs : Serve(rooms_create(c, n))
    \/ \E c \in {"anon", ROLE_GUARD} : Serve(rooms_create(c, EmptyStr))
    \/ \E r \in RoomIdInputs, ci \in {NULL, 0}, pm \in BOOLEAN :
            Serve(create_booking(ROLE_HOST, [pad |-> TRUE, core |-> OtherNid], r, ci, 4, pm))
    \/ \E c \in Others(ROLE_HOST) : Serve(create_booking(c, Missing, NULL, NULL, NULL, FALSE))
    \/ \E b \in BookingIdInputs, lb \in LabelInputs : Serve(create(ROLE_HOST, b, lb))
    \/ \E c \in Others(ROLE_HOST) : Serve(create(c, NULL, EmptyStr))
    \/ \E c \in Callers, l \in LuggageIds : Serve(block(c, l))
    \/ \E c \in Callers, l \in LuggageIds : Serve(unblock(c, l))
    \/ \E c \in Callers, l \in LuggageIds : Serve(delete(c, l))
    \/ \E cp \in CheckpointInputs, qr \in QrInputs : Serve(guard_scan_post(ROLE_GUARD, cp, qr))
    \/ \E c \in Others(ROLE_GUARD) : Serve(guard_scan_post(c, NULL, Missing))

\* requests are served one at a time, each to completion
Spec == Init /\ [][NextLuggage]_vars

\* Two guards at the luggage checkpoint at once: luggage is registered and
\* deleted, and each of the two slots scans in its two steps.
NextConc ==
    \/ \E r \in RoomIdInputs \ {NULL} :
            Serve(create_booking(ROLE_HOST, [pad |-> FALSE, core |-> OtherNid], r, 0, 4, FALSE))
    \/ \E b \in BookingIdInputs : Serve(create(ROLE_HOST, b, <<"bag">>))
    \/ \E l \in LuggageIds : Serve(delete(ROLE_HOST, l))
    \/ \E s \in Slots, qr \in QrInputs : Serve(scan_select(s, ROLE_GUARD, 1, qr))
    \/ \E s \in Slots, c \in Others(ROLE_GUARD) : Serve(scan_select(s, c, NULL, Missing))
    \/ \E s \in Slots : scan_commit(s) /\ UNCHANGED reqs

SpecConc == Init /\ [][NextConc]_vars

\* The gate: bookings and luggage come into being, time passes, and the guard
\* uses the three scan endpoints.
NextGate ==
    \/ \E c \in {ROLE_ADMIN, ROLE_GUARD}, n \in RoomNameInputs : ServeGate(rooms_create(c, n))
    \/ \E id \in GuestNidInputs, r \in RoomIdInputs, ci \in CheckInInputs,
          co \in CheckOutInputs, pm \in BOOLEAN :
            ServeGate(create_booking(ROLE_HOST, id, r, ci, co, pm))
    \/ \E b \in BookingIdInputs, lb \in LabelInputs : ServeGate(create(ROLE_HOST, b, lb))
    \/ \E qr \in QrInputs : ServeGate(guard_scan_post(ROLE_GUARD, 1, qr))
    \/ \E c \in Others(ROLE_GUARD) : ServeGate(guard_scan_post(c, NULL, Missing))
    \/ \E id \in NidInputs : ServeGate(scan_post(ROLE_GUARD, 1, id))
    \/ \E c \in Others(ROLE_GUARD) : ServeGate(scan_post(c, NULL, Missing))
    \/ \E qr \in BookingQrInputs : ServeGate(booking_scan_post(ROLE_GUARD, 1, qr))
    \/ \E c \in Others(ROLE_GUARD) : ServeGate(booking_scan_post(c, NULL, Missing))
    \/ Tick

SpecGate == Init /\ [][NextGate]_vars

\* the caller as flask_login sees it: a role whose user row is gone is nobody
Live(caller) == IF caller \in Roles /\ users[caller] = NULL THEN "anon" ELSE caller

\* The audit trail: the guard scans, the host registers, blocks, unblocks and
\* deletes luggage, and rooms, properties, checkpoints and users are deleted.
NextAudit ==
    \/ Serve(scan_post(Live(ROLE_GUARD), 1, [pad |-> FALSE, core |-> SeedNid]))
    \/ Serve(booking_scan_post(Live(ROLE_GUARD), 1, [pad |-> FALSE, core |-> StrayToken]))
    \/ \E t \in {StrayToken, LuggageToken(1)} :
            Serve(guard_scan_post(Live(ROLE_GUARD), 1, [pad |-> FALSE, core |-> t]))
    \/ Serve(create(Live(ROLE_HOST), 1, <<"bag">>))
    \/ \E l \in LuggageIds : Serve(block(Live(ROLE_HOST), l))
    \/ \E l \in LuggageIds : Serve(unblock(Live(ROLE_HOST), l))
    \/ \E l \in LuggageIds : Serve(delete(Live(ROLE_HOST), l))
    \/ \E c \in {ROLE_ADMIN, ROLE_HOST} : Serve(rooms_delete(Live(c), 1))
    \/ \E c \in {ROLE_ADMIN, ROLE_HOST} : Serve(properties_delete(Live(c), 1))
    \/ \E c \in {ROLE_ADMIN, ROLE_HOST} : Serve(checkpoints_delete(Live(c), 1))
    \/ \E c \in {ROLE_ADMIN, ROLE_HOST}, u \in {AdminId, GuardId, HostId} :
            Serve(users_delete(Live(c), u))

SpecAudit == Init /\ [][NextAudit]_vars

\* The seeded guest over time: rooms are created and deleted, the seed script
\* is run again, time passes, and the guard scans the seeded identity number.
NextSeed ==
    \/ Serve(rooms_create(ROLE_ADMIN, <<"room">>))
    \/ \E r \in 1..(MaxRooms + 1) : Serve(rooms_delete(ROLE_ADMIN, r))
    \/ Serve(seed)
    \/ Serve(scan_post(ROLE_GUARD, 1, [pad |-> FALSE, core |-> SeedNid]))
    \/ Tick

SpecSeed == Init /\ [][NextSeed]_vars

\* Guests who share an identity number: the host books the seeded room for
\* either number, for a stay that is over, running or both, time passes, and
\* the guard scans either number.
NextGuests ==
    \/ \E id \in GuestNidInputs, ci \in CheckInInputs \ {NULL}, co \in CheckOutInputs :
            /\ Len(guests) < MaxGuests
            /\ ServeGate(new_booking_post(ROLE_HOST, id, 1, ci, co, FALSE))
    \/ \E id \in GuestNidInputs : ServeGate(scan_post(ROLE_GUARD, 1, id))
    \/ Tick

SpecGuests == Init /\ [][NextGuests]_vars

\* OCR texts: one or two words, a word being a digit run, a digit run with
\* one misread character, a digit run touching a letter, or a label
DigitOf(i) == <<"1", "2", "3", "4", "5", "6", "7", "8", "9", "0">>[((i - 1) % 10) + 1]
DigitRun(n) == [i \in 1..n |-> DigitOf(i)]
DownRun(n) == [i \in 1..n |-> DigitOf(10 - i)]
RunLengths == 6..MaxRun
MisreadChars == {"O", "o", "D", "I", "l", "|", "!", "S", "s", "B", "Z", "z", "q", "g"}
SpecExample == <<"I", "O", "3", "4", "5", "G", "7", "8">>
OcrWords ==
    {DigitRun(n) : n \in RunLengths} \cup {DownRun(n) : n \in 7..9} \cup
    {<<c>> \o SubSeq(DigitRun(8), 2, 8) : c \in MisreadChars} \cup
    {SpecExample, <<"A">> \o DigitRun(8), DigitRun(8) \o <<"x">>, <<"I", "D", ":">>}
OcrSeparators == {" ", "_"}
OcrTexts ==
    OcrWords \cup {v \o <<sep>> \o w : v \in OcrWords, w \in OcrWords, sep \in OcrSeparators}

\* pytesseract has read the image: any of the OCR texts
InitOcr ==
    /\ Seeded
    /\ ocr \in {[pc |-> "raw", raw |-> t, norm |-> EmptyStr, found |-> EmptyStr] :
                    t \in OcrTexts}
    /\ gate = NoGate

NextOcr == extract_id_text

\* The normaliser on its own: an OCR text is read, normalised and searched.
SpecOcr == InitOcr /\ [][NextOcr]_vars

----------------------------------------------------------------------------
\* The plan gate (utils/plan_gate.py).  A plan is a string, the sequence of
\* its characters; a user without a plan attribute, or with plan None, has
\* plan None, a decorator called without `required` has required None.

LowerLetters ==
    <<"a", "b", "c", "d", "e", "f", "g", "h", "i", "j", "k", "l", "m", "n", "o", "p", "q",
      "r", "s", "t", "u", "v", "w", "x", "y", "z">>
UpperLetters ==
    <<"A", "B", "C", "D", "E", "F", "G", "H", "I", "J", "K", "L", "M", "N", "O", "P", "Q",
      "R", "S", "T", "U", "V", "W", "X", "Y", "Z">>
\* str.upper()
upper(s) ==
    [i \in 1..Len(s) |->
        IF \E k \in 1..26 : LowerLetters[k] = s[i]
        THEN UpperLetters[CHOOSE k \in 1..26 : LowerLetters[k] = s[i]]
        ELSE s[i]]

PlanFree    == <<"F", "R", "E", "E">>
PlanBasic   == <<"b", "a", "s", "i", "c">>
PlanPremium == <<"p", "r", "e", "m", "i", "u", "m">>

\* `not x` for an optional string
Falsy(x) == x = None \/ x = EmptyStr

\* (a variant that keeps to `required` and forgets any_of)
allowed_set_RequiredOnly(required, any_of) ==
    IF Falsy(required) THEN {PlanPremium} ELSE {required}

\* allowed_set, with the default to premium when nothing is specified
allowed_set(required, any_of) ==
    LET req == IF Falsy(required) /\ any_of = {} THEN PlanPremium ELSE required IN
    IF any_of # {} THEN any_of
    ELSE IF ~Falsy(req) THEN {req} ELSE {}

\* (getattr(current_user, "plan", None) or "FREE").upper()
user_plan(plan) == upper(IF Falsy(plan) THEN PlanFree ELSE plan)

allowed_upper(required, any_of) == {upper(p) : p \in allowed_set(required, any_of)}

\* the message flashed before the redirect to the pricing page
UpgradeMessage(required, any_of, plan) ==
    IF allowed_upper(required, any_of) = {upper(PlanPremium)}
    THEN "Upgrade to Premium to use this feature."
    ELSE IF allowed_upper(required, any_of) # {}
    THEN IF user_plan(plan) = PlanFree
         THEN "Upgrade your plan to use this feature."
         ELSE "Your current plan doesn't include this feature."
    ELSE "Your plan doesn't allow this action."

\* everything but the response and the request counter
Database ==
    <<users, checkpoints, rooms, properties, guests, bookings, luggage, nextLugId,
      lugLog, accessLog, now, sess, ocr, gate>>

\* require_plan(required, any_of)(f), called by caller whose plan is plan
_inner(required, any_of, caller, plan, f) ==
    IF caller = "anon" THEN
        resp' = Redirect("Please login.") /\ UNCHANGED Database
    ELSE IF caller = "admin" THEN
        f
    ELSE IF user_plan(plan) \notin allowed_upper(required, any_of) THEN
        resp' = Redirect(UpgradeMessage(required, any_of, plan)) /\ UNCHANGED Database
    ELSE f

\* a user's plan: none, empty, basic or premium in a spelling of their own
PlanInputs == {None, EmptyStr, <<"B", "a", "s", "i", "c">>, upper(PlanPremium)}
\* the operations behind the gate: the luggage scanner and the registration
GatedOps == {"scan", "register"}
Wrapped(op, caller) ==
    CASE op = "scan"       -> guard_scan_post(caller, 1, [pad |-> FALSE, core |-> LuggageToken(1)])
      [] op = "register"   -> create(caller, 1, <<"bag">>)

\* a caller with a plan asks for an operation behind a gate
GateCalls ==
    [required : {None, PlanPremium, upper(PlanBasic)}, any_of : {{}, {PlanBasic, PlanPremium}},
     caller : Callers, plan : PlanInputs, op : GatedOps]

\* the next request arrives at the gate: the decorator's arguments stay as
\* they were when the module was loaded
call ==
    /\ gate' \in GateCalls
    /\ gate'.required = gate.required
    /\ gate'.any_of = gate.any_of
    /\ UNCHANGED <<users, checkpoints, rooms, properties, guests, bookings, luggage,
                   nextLugId, lugLog, accessLog, now, sess, ocr, resp, reqs>>

\* the request at the gate is served
require_plan ==
    _inner(gate.required, gate.any_of, gate.caller, gate.plan, Wrapped(gate.op, gate.caller))

InitPlan == Seeded /\ ocr = NoOcr /\ gate \in GateCalls

\* The gate in front of the luggage desk: every caller, with every plan,
\* asks for an operation behind a gate.
NextPlan ==
    \/ call
    \/ ServeGate(require_plan)

SpecPlan == InitPlan /\ [][NextPlan]_vars

----------------------------------------------------------------------------
\* Properties

\* the positions of the allow rows logged for luggage row l
AllowRows(l) ==
    {i \in DOMAIN lugLog : lugLog[i].luggage_id = l /\ lugLog[i].decision = "allow"}
\* the luggage rows carrying the token a form field submits
RowsOf(qr) == {l \in DOMAIN luggage : luggage[l].qr_token = StripOrEmpty(qr)}
LastLugLog == lugLog[Len(lugLog)]
\* the step appends exactly one row to the log
OneMore(log, logAfter) == Len(logAfter) = Len(log) + 1

\* C1: two concurrent scans of the same token of a pending item end in one
\* allow and one deny: never do both slots' scans of one luggage row return
\* allow, and never does the log hold two allow rows for one luggage row.
\* (Under SpecConc an exited row is never put back: only the overlap of two
\* scans can produce a second allow.)
C1_OneAllowPerPendingItem ==
    \A l \in LuggageIds :
        /\ ~(/\ sess[1].out = "allow" /\ sess[1].outLug = l
             /\ sess[2].out = "allow" /\ sess[2].outLug = l)
        /\ Cardinality(AllowRows(l)) <= 1

\* C2: exited is terminal: no step takes a luggage row that is exited, and
\* still exists after the step, to another status.
C2_ExitedIsTerminal ==
    [][\A l \in DOMAIN luggage :
          (luggage[l].status = "exited" /\ l \in DOMAIN luggage')
              => luggage'[l].status = "exited"]_vars

\* C3: a luggage token cannot be replayed: in the scan log, every row that
\* follows an allow row of the same luggage row is a deny (so each luggage row
\* has at most one allow row).
C3_NoReplay ==
    \A i, j \in DOMAIN lugLog :
        (/\ i < j
         /\ lugLog[i].luggage_id = lugLog[j].luggage_id
         /\ lugLog[i].decision = "allow")
            => lugLog[j].decision = "deny"

\* C4: a guard's scan of the token of an existing pending luggage row returns
\* allow and leaves the row exited; the scan of the same token that
\* immediately follows an allow returns deny and leaves the row exited.
C4_PendingScanAllowsOnce ==
    [][\A cp \in CheckpointInputs, qr \in QrInputs :
          guard_scan_post(ROLE_GUARD, cp, qr) =>
              \A l \in RowsOf(qr) :
                  /\ luggage[l].status = "pending" =>
                        /\ resp'.decision = "allow"
                        /\ luggage'[l].status = "exited"
                  /\ (/\ resp.code = 200
                      /\ resp.decision = "allow"
                      /\ resp.info.luggage_id = l) =>
                        /\ resp'.decision = "deny"
                        /\ luggage'[l].status = "exited"]_vars

\* C5: a guard's scan of the token of a blocked luggage row is denied and
\* logged with the note "Blocked item.", the scan of an exited row is denied
\* and logged with the note "Already exited."; neither changes the Luggage table.
C5_BlockedAndExitedDenied ==
    [][\A cp \in CheckpointInputs, qr \in QrInputs :
          guard_scan_post(ROLE_GUARD, cp, qr) =>
              \A l \in RowsOf(qr) :
                  /\ luggage[l].status = "blocked" =>
                        /\ resp'.decision = "deny"
                        /\ OneMore(lugLog, lugLog')
                        /\ lugLog'[Len(lugLog')].decision = "deny"
                        /\ lugLog'[Len(lugLog')].note = "Blocked item."
                        /\ luggage' = luggage
                  /\ luggage[l].status = "exited" =>
                        /\ resp'.decision = "deny"
                        /\ OneMore(lugLog, lugLog')
                        /\ lugLog'[Len(lugLog')].decision = "deny"
                        /\ lugLog'[Len(lugLog')].note = "Already exited."
                        /\ luggage' = luggage]_vars

\* C6: a host's unblock takes a blocked row to pending, leaves a pending row
\* pending and an exited row exited (however often it is repeated); and the
\* guard's scan of a row that an unblock has just left pending returns allow
\* and leaves the row exited.
C6_UnblockThenScan ==
    [][/\ \A l \in DOMAIN luggage :
            unblock(ROLE_HOST, l) =>
                /\ luggage[l].status = "blocked" => luggage'[l].status = "pending"
                /\ luggage[l].status = "pending" => luggage'[l].status = "pending"
                /\ luggage[l].status = "exited" => luggage'[l].status = "exited"
       /\ \A cp \in CheckpointInputs, qr \in QrInputs :
            guard_scan_post(ROLE_GUARD, cp, qr) =>
                \A l \in RowsOf(qr) :
                    (/\ resp = Detail("Luggage unblocked.", l)
                     /\ luggage[l].status = "pending") =>
                        /\ resp'.decision = "allow"
                        /\ luggage'[l].status = "exited"]_vars

\* C7: a guard's luggage scan with a non-empty token that no luggage row
\* carries returns deny, appends to the scan log exactly one row, with luggage
\* reference 0, decision deny and note "QR not found", and leaves the Luggage
\* table as it was.
C7_UnknownTokenDeniedAndLogged ==
    [][\A cp \in CheckpointInputs, qr \in QrInputs :
          (/\ StripOrEmpty(qr) # EmptyStr
           /\ RowsOf(qr) = {}
           /\ guard_scan_post(ROLE_GUARD, cp, qr)) =>
              /\ resp'.code = 200
              /\ resp'.ok = "true"
              /\ resp'.decision = "deny"
              /\ lugLog' = Append(lugLog,
                              [guard_id |-> GuardId, checkpoint_id |-> IntOrZero(cp),
                               luggage_id |-> 0, decision |-> "deny",
                               note |-> "QR not found"])
              /\ luggage' = luggage
              /\ nextLugId' = nextLugId]_vars

\* C7's case: luggage rows exist, the guard has scanned a token none of them
\* carries, and the sentinel row is the last of the log
C7_Witness ==
    /\ luggage # <<>>
    /\ resp.code = 200 /\ resp.decision = "deny" /\ resp.message = "QR not recognized."
    /\ Len(lugLog) >= 1
    /\ LastLugLog.luggage_id = 0 /\ LastLugLog.note = "QR not found"
    /\ \A l \in DOMAIN luggage :
          bookings[luggage[l].booking_id].room_id = 1 /\ luggage[l].status = "pending"

\* C8: every scan attempt of a guard on the person-scan, booking-QR-scan or
\* luggage-scan endpoint appends exactly one row to the endpoint's log.
C8_EveryScanLogged ==
    [][/\ \A id \in NidInputs :
            scan_post(ROLE_GUARD, 1, id) => OneMore(accessLog, accessLog')
       /\ \A qr \in BookingQrInputs :
            booking_scan_post(ROLE_GUARD, 1, qr) => OneMore(accessLog, accessLog')
       /\ \A qr \in QrInputs :
            guard_scan_post(ROLE_GUARD, 1, qr) => OneMore(lugLog, lugLog')]_vars

\* C9: a guard's person scan with an empty identity string, and a booking-QR
\* or luggage scan with an empty token, is still logged: the log's new last
\* row has decision deny.
C9_EmptyInputLogged ==
    [][/\ \A id \in NidInputs :
            (StripOrEmpty(id) = EmptyStr /\ scan_post(ROLE_GUARD, 1, id)) =>
                /\ accessLog' # accessLog
                /\ accessLog'[Len(accessLog')].decision = "deny"
       /\ \A qr \in BookingQrInputs :
            (StripOrEmpty(qr) = EmptyStr /\ booking_scan_post(ROLE_GUARD, 1, qr)) =>
                /\ accessLog' # accessLog
                /\ accessLog'[Len(accessLog')].decision = "deny"
       /\ \A qr \in QrInputs :
            (StripOrEmpty(qr) = EmptyStr /\ guard_scan_post(ROLE_GUARD, 1, qr)) =>
                /\ lugLog' # lugLog
                /\ lugLog'[Len(lugLog')].decision = "deny"]_vars

\* C10: an empty input is a normal deny: a guard's person scan with an empty
\* identity string answers 200 with ok true, decision deny, reason no_id, a
\* booking-QR or luggage scan with an empty token answers 200 with ok true,
\* decision deny, reason no_qr; none of them changes the Guest, Booking or
\* Luggage table.
C10_EmptyInputIsDeny ==
    [][/\ \A id \in NidInputs :
            (StripOrEmpty(id) = EmptyStr /\ scan_post(ROLE_GUARD, 1, id)) =>
                /\ resp'.code = 200 /\ resp'.ok = "true"
                /\ resp'.decision = "deny" /\ resp'.reason = "no_id"
                /\ UNCHANGED <<guests, bookings, luggage>>
       /\ \A qr \in BookingQrInputs :
            (StripOrEmpty(qr) = EmptyStr /\ booking_scan_post(ROLE_GUARD, 1, qr)) =>
                /\ resp'.code = 200 /\ resp'.ok = "true"
                /\ resp'.decision = "deny" /\ resp'.reason = "no_qr"
                /\ UNCHANGED <<guests, bookings, luggage>>
       /\ \A qr \in QrInputs :
            (StripOrEmpty(qr) = EmptyStr /\ guard_scan_post(ROLE_GUARD, 1, qr)) =>
                /\ resp'.code = 200 /\ resp'.ok = "true"
                /\ resp'.decision = "deny" /\ resp'.reason = "no_qr"
                /\ UNCHANGED <<guests, bookings, luggage>>]_vars

\* C10's case: with a created booking and a registered luggage row in the
\* database, the guard has just got the answer to an empty identity string
C10_Witness ==
    /\ Len(bookings) > 1
    /\ luggage # <<>>
    /\ resp = NoId

\* C11: the exit and its log row are one commit.  Every step that appends an
\* allow row for a luggage row takes that row from pending to exited in the
\* same step, and every step that takes a luggage row to exited appends
\* exactly one row to the scan log, an allow row for that luggage row.
C11_ExitAtomicWithLog ==
    [][/\ \A l \in LuggageIds :
            (/\ OneMore(lugLog, lugLog')
             /\ lugLog'[Len(lugLog')].luggage_id = l
             /\ lugLog'[Len(lugLog')].decision = "allow") =>
                /\ l \in DOMAIN luggage /\ luggage[l].status = "pending"
                /\ l \in DOMAIN luggage' /\ luggage'[l].status = "exited"
       /\ \A l \in DOMAIN luggage \cap DOMAIN luggage' :
            (luggage[l].status # "exited" /\ luggage'[l].status = "exited") =>
                /\ OneMore(lugLog, lugLog')
                /\ lugLog'[Len(lugLog')].luggage_id = l
                /\ lugLog'[Len(lugLog')].decision = "allow"]_vars

\* The time a stored check_in / check_out is to be compared with: the naive
\* local time of the deployment's zone, in which a host enters them.
LocalNow == now + NairobiOffset
\* the guest rows whose identity number is the submitted string
GuestsWith(id) == {g \in DOMAIN guests : guests[g].national_id_number = StripOrEmpty(id)}
\* booking b is active at time t
ActiveAt(b, t) ==
    /\ bookings[b].check_in <= t
    /\ t <= bookings[b].check_out
    /\ bookings[b].status # "cancelled"
LastAccessLog == accessLog[Len(accessLog)]

\* C12: a guard's person scan with a non-empty identity string that at most
\* one guest row carries returns allow exactly when that guest has a booking
\* that is active now (check_in <= now <= check_out, not cancelled); when it
\* has none, or no guest carries the string, the scan returns deny with reason
\* no_active_booking and logs one row with the guest resolved or null and no
\* booking.
C12_PersonScanVerdict ==
    [][\A id \in NidInputs :
          (/\ StripOrEmpty(id) # EmptyStr
           /\ Cardinality(GuestsWith(id)) <= 1
           /\ scan_post(ROLE_GUARD, 1, id)) =>
              LET active == \E g \in GuestsWith(id), b \in DOMAIN bookings :
                                bookings[b].guest_id = g /\ ActiveAt(b, LocalNow)
              IN  /\ active <=> (resp'.code = 200 /\ resp'.decision = "allow")
                  /\ ~active =>
                        /\ resp'.decision = "deny"
                        /\ resp'.reason = "no_active_booking"
                        /\ OneMore(accessLog, accessLog')
                        /\ accessLog'[Len(accessLog')].decision = "deny"
                        /\ accessLog'[Len(accessLog')].booking_id = NULL
                        /\ accessLog'[Len(accessLog')].guest_id \in GuestsWith(id) \cup {NULL}
                        /\ GuestsWith(id) # {} =>
                                accessLog'[Len(accessLog')].guest_id \in GuestsWith(id)]_vars

\* the bookings of the guest a person scan of id resolves to that are active now
ActiveOf(id) ==
    {b \in DOMAIN bookings :
        bookings[b].guest_id = GuestByNid(StripOrEmpty(id)) /\ ActiveAt(b, LocalNow)}

\* C13: when the guest a person scan resolves to has several bookings active
\* now, one of them with a later check_out than every other, the scan
\* returns allow for that one: it is the booking in the AccessLog row the scan
\* appends and the booking in the info payload of the response.
C13_LatestCheckOutWins ==
    [][\A id \in NidInputs :
          (/\ Cardinality(ActiveOf(id)) >= 2
           /\ \E b \in ActiveOf(id) : \A c \in ActiveOf(id) \ {b} :
                    bookings[c].check_out < bookings[b].check_out
           /\ scan_post(ROLE_GUARD, 1, id)) =>
              \E b \in ActiveOf(id) :
                  /\ \A c \in ActiveOf(id) : bookings[c].check_out <= bookings[b].check_out
                  /\ OneMore(accessLog, accessLog')
                  /\ accessLog'[Len(accessLog')].booking_id = b
                  /\ accessLog'[Len(accessLog')].decision = "allow"
                  /\ resp'.code = 200
                  /\ resp'.decision = "allow"
                  /\ resp'.info.booking_id = b]_vars

\* the bookings carrying the token a form field submits
BookingsOf(qr) == {b \in DOMAIN bookings : bookings[b].qr_token = StripOrEmpty(qr)}

\* C14: a guard's booking-QR scan with the token of a booking returns allow
\* exactly when that booking is not cancelled and check_in <= now <= check_out,
\* deny otherwise, and in both cases appends one AccessLog row with that
\* booking's id, its guest's id and the decision returned.
C14_BookingScanVerdict ==
    [][\A qr \in BookingQrInputs :
          (/\ StripOrEmpty(qr) # EmptyStr
           /\ booking_scan_post(ROLE_GUARD, 1, qr)) =>
              \A b \in BookingsOf(qr) :
                  /\ resp'.code = 200
                  /\ resp'.decision = IF ActiveAt(b, LocalNow) THEN "allow" ELSE "deny"
                  /\ OneMore(accessLog, accessLog')
                  /\ accessLog'[Len(accessLog')].booking_id = b
                  /\ accessLog'[Len(accessLog')].guest_id = bookings[b].guest_id
                  /\ accessLog'[Len(accessLog')].decision = resp'.decision]_vars

\* C15: a guard's booking-QR scan with a non-empty token that no booking
\* carries returns deny ("QR not recognized.") and appends exactly one AccessLog
\* row: decision deny, the not-found marker, no guest, no booking, no identity
\* string; the Guest and Booking tables stay as they were.
C15_UnknownBookingToken ==
    [][\A qr \in BookingQrInputs :
          (/\ StripOrEmpty(qr) # EmptyStr
           /\ BookingsOf(qr) = {}
           /\ booking_scan_post(ROLE_GUARD, 1, qr)) =>
              /\ resp'.code = 200
              /\ resp'.decision = "deny"
              /\ resp'.message = "QR not recognized."
              /\ accessLog' = Append(accessLog,
                                 [guard_id |-> GuardId, checkpoint_id |-> 1,
                                  guest_id |-> NULL, booking_id |-> NULL,
                                  national_id_number |-> NullStr, decision |-> "deny",
                                  ocr_text |-> "[booking_qr_not_found]"])
              /\ UNCHANGED <<guests, bookings>>]_vars

\* C15's case: a booking with a token exists, and the guard has scanned a
\* token no booking carries: the not-found row is the last of the log
C15_Witness ==
    /\ \E b \in DOMAIN bookings : bookings[b].qr_token # NullStr
    /\ resp.code = 200 /\ resp.decision = "deny" /\ resp.message = "QR not recognized."
    /\ accessLog # <<>>
    /\ LastAccessLog.ocr_text = "[booking_qr_not_found]"
    /\ LastAccessLog.booking_id = NULL

\* the person scan of this identity string would return allow now
PersonAllows(id) ==
    ENABLED (scan_post(ROLE_GUARD, 1, id) /\ resp'.decision = "allow")
\* the booking-QR scan of this token would return allow now
QrAllows(qr) ==
    ENABLED (booking_scan_post(ROLE_GUARD, 1, qr) /\ resp'.decision = "allow")

\* C16: the two paths agree at every instant.  For a guest whose identity
\* number no other guest row carries and who has exactly one booking, that
\* booking carrying a token and lying in a room with a property, the person
\* scan of the identity number returns allow exactly when the booking-QR scan
\* of the booking's token does.
C16_SamePredicateSameClock ==
    \A g \in DOMAIN guests, b \in DOMAIN bookings :
        (/\ bookings[b].guest_id = g
         /\ \A c \in DOMAIN bookings : bookings[c].guest_id = g => c = b
         /\ \A h \in DOMAIN guests :
                guests[h].national_id_number = guests[g].national_id_number => h = g
         /\ guests[g].national_id_number # EmptyStr
         /\ bookings[b].qr_token # NullStr
         /\ bookings[b].room_id \in DOMAIN rooms
         /\ rooms[bookings[b].room_id].property_id \in DOMAIN properties) =>
            (PersonAllows([pad |-> FALSE, core |-> guests[g].national_id_number])
                <=> QrAllows([pad |-> FALSE, core |-> bookings[b].qr_token]))

\* what the normaliser makes of a submitted identity string
Normalized(id) == _pick_id(_norm(StripOrEmpty(id)))
\* the room of booking b exists and lies in a property
Housed(b) ==
    /\ bookings[b].room_id \in DOMAIN rooms
    /\ rooms[bookings[b].room_id].property_id \in DOMAIN properties

\* C17: the person path normalises before the lookup.  A guard's person scan
\* with a string whose normal form (confusables folded, digit run extracted)
\* is the identity number of exactly one guest, who has an active booking in a
\* room with a property, returns allow and logs that guest.
C17_PersonPathNormalizes ==
    [][\A id \in NidInputs :
          (/\ StripOrEmpty(id) # EmptyStr
           /\ scan_post(ROLE_GUARD, 1, id)) =>
              \A g \in DOMAIN guests :
                  (/\ guests[g].national_id_number = Normalized(id)
                   /\ \A h \in DOMAIN guests :
                          guests[h].national_id_number = Normalized(id) => h = g
                   /\ \E b \in DOMAIN bookings :
                          bookings[b].guest_id = g /\ ActiveAt(b, LocalNow) /\ Housed(b)
                   /\ \A b \in DOMAIN bookings :
                          (bookings[b].guest_id = g /\ ActiveAt(b, LocalNow)) => Housed(b)) =>
                      /\ resp'.decision = "allow"
                      /\ accessLog'[Len(accessLog')].guest_id = g]_vars

\* the correction the specification lists for a misread character
Corrected(c) ==
    CASE c \in {"O", "o", "D"}      -> "0"
      [] c \in {"I", "l", "|", "!"} -> "1"
      [] c \in {"S", "s"}           -> "5"
      [] c = "B"                    -> "8"
      [] c \in {"Z", "z"}           -> "2"
      [] c \in {"q", "g"}           -> "9"
      [] OTHER                      -> c
\* the positions of text where a run of exactly 8 digits and misread
\* characters begins (no such character before it or after it)
Recoverable8(text) ==
    LET runChar(k) == k >= 1 /\ k <= Len(text) /\ text[k] \in DigitChars \cup MisreadChars
    IN  {i \in 1..Len(text) :
            /\ \A k \in i..(i + 7) : runChar(k)
            /\ ~runChar(i - 1)
            /\ ~runChar(i + 8)}

\* C18: when an OCR text contains a run of exactly 8 digits and misread
\* characters, the identity extracted from it is such a run with every misread
\* character corrected; for the text "IO345G78" it is "10345978".
C18_RecoverableRunExtracted ==
    ocr.pc = "done" =>
        /\ Recoverable8(ocr.raw) # {} =>
                ocr.found \in {[k \in 1..8 |-> Corrected(ocr.raw[i + k - 1])] :
                                  i \in Recoverable8(ocr.raw)}
        /\ ocr.raw = SpecExample =>
                ocr.found = <<"1", "0", "3", "4", "5", "9", "7", "8">>

\* n digits begin at position i of text, with no word character before them
\* and none after them
BoundedRun(text, i, n) ==
    /\ i + n - 1 <= Len(text)
    /\ \A k \in i..(i + n - 1) : text[k] \in DigitChars
    /\ i = 1 \/ text[i - 1] \notin WordChars
    /\ i + n - 1 = Len(text) \/ text[i + n] \notin WordChars
Exact8(text) == {i \in 1..Len(text) : BoundedRun(text, i, 8)}
Run79(text) == {i \in 1..Len(text) : \E n \in 7..9 : BoundedRun(text, i, n)}
Leftmost(S) == CHOOSE i \in S : \A j \in S : i <= j

\* C19: the identity extracted from the normalised text is the leftmost
\* bounded run of exactly 8 digits if there is one, even after an earlier run
\* of 7 or 9; if there is none, the leftmost bounded run of 7 to 9 digits; if
\* there is none of these, nothing.  What is extracted is 7 to 9 digits.
C19_ExtractionPrecedence ==
    ocr.pc = "done" =>
        LET t == ocr.norm IN
        /\ Exact8(t) # {} =>
                ocr.found = SubSeq(t, Leftmost(Exact8(t)), Leftmost(Exact8(t)) + 7)
        /\ (Exact8(t) = {} /\ Run79(t) # {}) =>
                \E n \in 7..9 :
                    /\ BoundedRun(t, Leftmost(Run79(t)), n)
                    /\ ocr.found = SubSeq(t, Leftmost(Run79(t)), Leftmost(Run79(t)) + n - 1)
        /\ Run79(t) = {} => ocr.found = None
        /\ ocr.found # None =>
                /\ Len(ocr.found) \in 7..9
                /\ \A k \in 1..Len(ocr.found) : ocr.found[k] \in DigitChars

\* C19's case: the text has been searched, a run of 7 or 9 digits comes before
\* the first run of exactly 8, and the run of 8 is what was extracted
C19_Witness ==
    /\ ocr.pc = "done"
    /\ Exact8(ocr.norm) # {}
    /\ \E j \in Run79(ocr.norm) : j < Leftmost(Exact8(ocr.norm))
    /\ Len(ocr.found) = 8
    /\ ocr.found # SubSeq(ocr.norm, 1, 8)

\* the log is the log after with nothing removed and nothing changed
Prefix(log, logAfter) ==
    /\ Len(log) <= Len(logAfter)
    /\ SubSeq(logAfter, 1, Len(log)) = log

ScanInputs ==
    {Missing} \cup [pad : {FALSE}, core : {SeedNid, LuggageToken(1), BookingToken(2)}]

\* Who may scan: a booking and a luggage item are registered, and every
\* caller, logged in or not, sends requests to the three scan POST endpoints.
NextRoles ==
    \/ ServeGate(create_booking(ROLE_HOST, [pad |-> FALSE, core |-> OtherNid], 1, 0, 4, FALSE))
    \/ ServeGate(create(ROLE_HOST, 1, <<"bag">>))
    \/ \E c \in Callers, cp \in CheckpointInputs, x \in ScanInputs : ServeGate(scan_post(c, cp, x))
    \/ \E c \in Callers, cp \in CheckpointInputs, x \in ScanInputs :
            ServeGate(booking_scan_post(c, cp, x))
    \/ \E c \in Callers, cp \in CheckpointInputs, x \in ScanInputs :
            ServeGate(guard_scan_post(c, cp, x))

SpecRoles == Init /\ [][NextRoles]_vars

\* a request to one of the three scan POST endpoints
AnyScan(caller, cp, x) ==
    \/ scan_post(caller, cp, x)
    \/ booking_scan_post(caller, cp, x)
    \/ guard_scan_post(caller, cp, x)

\* the request wrote no log row and changed no luggage row
NoTrace == UNCHANGED <<accessLog, lugLog, luggage>>

\* C21 as stated: every caller who is not a logged-in guard gets the JSON
\* answer ok=false "Unauthorized" with HTTP 403 from each of the three scan
\* POST endpoints, and the request writes no log row and changes no luggage.
C21_NonGuardGets403 ==
    [][\A c \in Others(ROLE_GUARD), cp \in CheckpointInputs, x \in ScanInputs :
          AnyScan(c, cp, x) => resp' = Unauthorized /\ NoTrace]_vars

\* C21, amended: a logged-in caller whose role is not guard gets ok=false
\* "Unauthorized" with HTTP 403 from each of the three scan POST endpoints, a
\* caller who is not logged in is redirected to the login page; in both cases
\* the request writes no log row and changes no luggage.
C21_NonGuardTurnedAway ==
    [][\A c \in Others(ROLE_GUARD), cp \in CheckpointInputs, x \in ScanInputs :
          AnyScan(c, cp, x) =>
             /\ resp' = IF c = "anon" THEN LoginRedirect ELSE Unauthorized
             /\ NoTrace]_vars

\* C21's case: a scan request has been answered 403 while a pending luggage
\* item and a booking with a QR token were there to be scanned
C21_Witness ==
    /\ resp = Unauthorized
    /\ \E l \in DOMAIN luggage : luggage[l].status = "pending"
    /\ \E b \in DOMAIN bookings : bookings[b].qr_token # NullStr

\* luggage row l is there before and after the step and its status becomes s
Becomes(l, s) ==
    /\ l \in DOMAIN luggage /\ l \in DOMAIN luggage'
    /\ luggage[l].status # s
    /\ luggage'[l].status = s

\* C22: luggage status is changed only by a host toggle or a successful guard
\* scan.  A block, unblock, create or delete request of a caller who is not a
\* host leaves every luggage row as it is; a status becomes blocked only in a
\* host's block request for that row; a status becomes exited only in a guard's
\* scan that answers allow for that row.
C22_StatusChangedOnlyByHostOrScan ==
    [][/\ \/ UNCHANGED luggage
          \/ \A c \in Others(ROLE_HOST), l \in LuggageIds, b \in BookingIdInputs,
                lb \in LabelInputs :
                ~(block(c, l) \/ unblock(c, l) \/ delete(c, l) \/ create(c, b, lb))
       /\ \A l \in LuggageIds :
             /\ Becomes(l, "blocked") => block(ROLE_HOST, l)
             /\ Becomes(l, "exited") =>
                   /\ \/ \E cp \in CheckpointInputs, qr \in QrInputs :
                            guard_scan_post(ROLE_GUARD, cp, qr)
                      \/ \E s \in Slots : scan_commit(s)
                   /\ resp'.decision = "allow"
                   /\ resp'.info.luggage_id = l]_vars

\* C22's case: one item has been blocked by the host, another has exited in a
\* guard's scan, and a caller who is not a host has just been refused a toggle
C22_Witness ==
    /\ resp = Redirect("Only hosts can manage luggage status.")
    /\ \E l \in DOMAIN luggage : luggage[l].status = "blocked"
    /\ \E l \in DOMAIN luggage : luggage[l].status = "exited"

\* C23: extraction is stable on its own result.  Whenever the normal form of
\* an OCR text yields an identity number r, normalising r and searching it
\* again yields r unchanged.
C23_ExtractionStable ==
    (ocr.pc = "done" /\ ocr.found # None) => _pick_id(_norm(ocr.found)) = ocr.found

\* C23's case: an identity number has been extracted from a longer text in
\* which a misread character had to be folded into a digit
C23_Witness ==
    /\ ocr.pc = "done"
    /\ ocr.found # None
    /\ ocr.norm # ocr.raw
    /\ Len(ocr.found) < Len(ocr.raw)
    /\ \E i \in 1..Len(ocr.raw) :
          /\ ocr.raw[i] \notin DigitChars
          /\ i + Len(ocr.found) - 1 <= Len(ocr.raw)
          /\ ocr.found = SubSeq(ocr.norm, i, i + Len(ocr.found) - 1)

\* the bookings made for identity number id: those whose guest row carries it
BookedFor(id) ==
    {b \in DOMAIN bookings :
        /\ bookings[b].guest_id \in DOMAIN guests
        /\ guests[bookings[b].guest_id].national_id_number = StripOrEmpty(id)}

\* C24: identity numbers are unique for matching.  Whatever number of guest
\* rows carry an identity number, a guard's person scan of the number is
\* allowed whenever some booking made for the number is active now (not
\* cancelled, check_in <= now <= check_out).
C24_SharedNumberMatches ==
    [][\A id \in GuestNidInputs :
          (/\ \E b \in BookedFor(id) : ActiveAt(b, LocalNow)
           /\ scan_post(ROLE_GUARD, 1, id)) =>
              resp'.code = 200 /\ resp'.decision = "allow"]_vars

\* the luggage rows that carry the token submitted in qr
LuggageWith(qr) == {l \in DOMAIN luggage : luggage[l].qr_token = StripOrEmpty(qr)}

\* C25: the not-found outcome is for tokens of no luggage row.  When a guard
\* scans a token that a luggage row carries, whatever room and property the
\* row's booking refers to, the scan is decided from that row's status (deny
\* for exited and blocked, allow otherwise) and the row logged carries the
\* luggage row's id, never the sentinel 0.
C25_NotFoundOnlyForUnknownTokens ==
    [][\A cp \in CheckpointInputs, qr \in QrInputs :
          (/\ LuggageWith(qr) # {}
           /\ guard_scan_post(ROLE_GUARD, cp, qr)) =>
              /\ OneMore(lugLog, lugLog')
              /\ lugLog'[Len(lugLog')].luggage_id \in LuggageWith(qr)
              /\ lugLog'[Len(lugLog')].decision =
                    Decide(luggage[lugLog'[Len(lugLog')].luggage_id].status)[1]
              /\ resp'.decision = lugLog'[Len(lugLog')].decision]_vars

\* C26: the verdict returned is the verdict logged.  Whenever a guard's scan
\* (person, booking-QR or luggage) appends a log row, the request completes
\* with HTTP 200 and the decision of that row; in particular a person scan
\* that logs allow answers allow with the info payload of the logged booking,
\* also when the booked room has no property.
C26_ReturnedVerdictIsLoggedVerdict ==
    [][\A cp \in CheckpointInputs :
          /\ \A id \in NidInputs :
                (scan_post(ROLE_GUARD, cp, id) /\ OneMore(accessLog, accessLog')) =>
                    /\ resp'.code = 200
                    /\ resp'.decision = accessLog'[Len(accessLog')].decision
                    /\ resp'.decision = "allow" =>
                          resp'.info.booking_id = accessLog'[Len(accessLog')].booking_id
          /\ \A qr \in BookingQrInputs :
                (booking_scan_post(ROLE_GUARD, cp, qr) /\ OneMore(accessLog, accessLog')) =>
                    /\ resp'.code = 200
                    /\ resp'.decision = accessLog'[Len(accessLog')].decision
          /\ \A qr \in QrInputs :
                (guard_scan_post(ROLE_GUARD, cp, qr) /\ OneMore(lugLog, lugLog')) =>
                    /\ resp'.code = 200
                    /\ resp'.decision = lugLog'[Len(lugLog')].decision]_vars

\* C27: an allow row of the AccessLog names a guest and a booking of that
\* guest that was active when the row was written.  Every allow row in the
\* log has a booking and a guest; and a step that appends an allow row
\* appends it for a booking that belongs to the row's guest, is not cancelled
\* and whose window contains the time of the scan.  (A row without a guest or
\* without a booking is therefore a deny row.)
C27_AllowRowsAreActiveBookings ==
    [][/\ \A i \in DOMAIN accessLog' :
             accessLog'[i].decision = "allow" =>
                accessLog'[i].booking_id # NULL /\ accessLog'[i].guest_id # NULL
       /\ (OneMore(accessLog, accessLog') /\ accessLog'[Len(accessLog')].decision = "allow") =>
             LET row == accessLog'[Len(accessLog')] IN
             /\ row.booking_id \in DOMAIN bookings
             /\ bookings[row.booking_id].guest_id = row.guest_id
             /\ ActiveAt(row.booking_id, LocalNow)]_vars

\* C28: the luggage verdict depends on the item's status alone.  When a guard
\* scans the token of a pending item, the scan answers allow and the item
\* becomes exited, whatever the status of its booking and whether or not the
\* scan time lies in the booking's window.
C28_PendingItemExits ==
    [][\A cp \in CheckpointInputs, qr \in QrInputs, l \in LuggageIds :
          (/\ l \in LuggageWith(qr)
           /\ luggage[l].status = "pending"
           /\ guard_scan_post(ROLE_GUARD, cp, qr)) =>
              /\ resp'.decision = "allow"
              /\ luggage'[l].status = "exited"]_vars

\* C29: a log row links the attempt to a checkpoint that exists.  Whenever a
\* scan appends a row to the AccessLog or to the LuggageScanLog, the row's
\* checkpoint_id is the id of a checkpoint row; a scan whose checkpoint_id is
\* missing writes no row that points at no checkpoint (such as id 0).
C29_LoggedCheckpointExists ==
    [][/\ OneMore(accessLog, accessLog') =>
             accessLog'[Len(accessLog')].checkpoint_id \in DOMAIN checkpoints
       /\ OneMore(lugLog, lugLog') =>
             lugLog'[Len(lugLog')].checkpoint_id \in DOMAIN checkpoints]_vars

\* two plan names are the same but for the case of their letters
SamePlan(p, q) ==
    /\ Len(p) = Len(q)
    /\ \A i \in 1..Len(p) :
          \/ p[i] = q[i]
          \/ \E k \in 1..26 : {p[i], q[i]} = {LowerLetters[k], UpperLetters[k]}

\* the plans a gate lets through, for a gate given a single plan, a set of
\* plans, or neither
PlansLetThrough(g) ==
    IF g.any_of # {} THEN g.any_of
    ELSE IF g.required \notin {None, EmptyStr} THEN {g.required}
    ELSE {PlanPremium}

\* the caller is let through: logged in, and an admin or on one of the plans
MayPass(g, caller, plan) ==
    /\ caller # "anon"
    /\ \/ caller = ROLE_ADMIN
       \/ \E q \in PlansLetThrough(g) :
             SamePlan(IF plan \in {None, EmptyStr} THEN PlanFree ELSE plan, q)

\* the gates the claim speaks of: a single plan, a set of plans, or neither
ClaimedGate(g) == g.any_of = {} \/ g.required = None

\* C30: the plan gate.  The operation behind a gate is executed only for a
\* caller who is logged in and either is an admin or has a plan, compared
\* without regard to case and a missing plan counting as FREE, among the
\* plans of the gate (the single required plan, the any_of set, premium when
\* neither is given); such a caller's request is the operation's, every other
\* caller is redirected, to the login page when not logged in and to the
\* pricing page otherwise, and nothing of the operation happens.
C30_PlanGate ==
    [][(ClaimedGate(gate) /\ require_plan) =>
          IF MayPass(gate, gate.caller, gate.plan)
          THEN Wrapped(gate.op, gate.caller)
          ELSE /\ UNCHANGED Database
               /\ resp'.code = 302
               /\ (gate.caller = "anon") <=> (resp'.message = "Please login.")
               /\ resp'.message \in
                     {"Please login.", "Upgrade to Premium to use this feature.",
                      "Upgrade your plan to use this feature.",
                      "Your current plan doesn't include this feature."}]_vars

\* C30's case: behind the gate luggage has been registered and has exited in
\* a scan, and the last caller has been sent to the pricing page
C30_Witness ==
    /\ \E l \in DOMAIN luggage : luggage[l].status = "exited"
    /\ lugLog # <<>>
    /\ resp = Redirect("Upgrade your plan to use this feature.")
====
